---- MODULE Spec2Model ----
(***************************************************************************)
(* Feed update pipeline of dmonizer/feedreader.                            *)
(*                                                                         *)
(* Part I  (Spec):      the persist step of the two background actors, the  *)
(*                      page-owned path (RSSWorker -> WorkerManager ->      *)
(*                      DatabaseService) and the page-independent path      *)
(*                      (RSSServiceWorker), on the shared IndexedDB store,  *)
(*                      with the Web Locks gate feed-update-{feedId}.       *)
(* Part II (SpecRetry): RSSWorker.updateSingleFeed and its retry logic.     *)
(* Part III (SpecBulk): RSSWorker.updateAllFeeds.                           *)
(* Part IV (SpecSched, SpecSWSched): the recurring timers of the two actors, *)
(*                      cancel and teardown.                                *)
(* Part V  (SpecIngest): the isHidden flag and the completion event.        *)
(* Part VI (SpecFeedStore): the records of object store 'feedSources',     *)
(*                      updateFeedLastUpdated against updateFeed.           *)
(* Part VII (SpecFilter): shouldHideContent on its own.                     *)
(* Part VIII (SpecUpdate, SpecCounter): a whole update cycle of each actor, *)
(*                      the retry counter and the backoff delays.           *)
(* Part IX (SpecSchedule): building the schedules from the stored feeds.    *)
(* Part X  (SpecDelete): DatabaseService.deleteFeed against the cycles.     *)
(* Part XI (SpecPage):  the page-owned path without the Web Locks API.      *)
(***************************************************************************)
EXTENDS Integers, Sequences, FiniteSets, TLC

VARIABLES
  feedItems,      \* object store 'feedItems': a set of records, key 'id'
  lastUpdated,    \* object store 'feedSources': lastUpdated of each feed
  now,            \* the wall clock (Date.now())
  nextId,         \* number of ids RSSServiceWorker.generateId() has produced
  locksAvailable, \* 'locks' in navigator
  gate,           \* Web Locks: holder of feed-update-{feedId}, 0 when free
  pubDateOf,      \* the pubDate the feed publishes for each guid
  cycles,         \* the persist-side update cycles
  calls,          \* RSSWorker: chains of updateSingleFeed invocations
  retryAttempts,  \* RSSWorker.retryAttempts
  bulk,           \* RSSWorker.updateAllFeeds: the running bulk operation
  updateIntervals,\* RSSWorker.updateIntervals: feed id -> timer
  feedSources,    \* RSSWorker.feedSources: feed id -> cached feed config
  timers,         \* the recurring timers installed in the page worker and not cleared
  nextTimer,      \* the id the next setInterval of the page worker returns
  isActive,       \* object store 'feedSources': isActive of each feed
  sw,             \* RSSServiceWorker: updateIntervals, its timeouts and recurring timers
  obs,            \* what an observer has seen: the last tick, the cancels, the teardowns
  feedConfig,     \* object store 'feedSources': title and updateInterval of each feed
  feedTx,         \* the calls on 'feedSources' that are between their get and their put
  storedFeeds     \* object store 'feedSources': the ids of its records

storeVars == <<feedItems, lastUpdated, now, nextId, locksAvailable, gate, pubDateOf, cycles>>
workerVars == <<calls, retryAttempts, bulk>>
schedVars == <<updateIntervals, feedSources, timers, nextTimer, isActive, sw, obs>>
feedVars == <<feedConfig, feedTx, storedFeeds>>
vars == <<feedItems, lastUpdated, now, nextId, locksAvailable, gate, pubDateOf, cycles,
          calls, retryAttempts, bulk,
          updateIntervals, feedSources, timers, nextTimer, isActive, sw, obs,
          feedConfig, feedTx, storedFeeds>>

(***************************************************************************)
(* Bounds of the model.                                                    *)
(***************************************************************************)
NumCycles == 2
MaxItems == 2
MaxNow == 2

FeedIds == {"f1", "f2"}
Cycles == 1..NumCycles

\* new Date(0), the lower bound of DatabaseService.getFeedItems' key range
Epoch == 0

\* pubDates a feed may publish: before the epoch, in the past, in the future
BeforeEpoch == Epoch - 1
Past == Epoch + 1
Future == MaxNow + 1
PubDates == {BeforeEpoch, Past, Future}

(***************************************************************************)
(* Raw feed entries as fetched: the feed-provided guid and link ("" when   *)
(* the element is missing).  An entry with a guid carries the pubDate the  *)
(* feed publishes for it; one without carries no pubDate.                  *)
(***************************************************************************)
RawEntries ==
  { [guid |-> "a", link |-> "la"],
    [guid |-> "b", link |-> "lb"],
    [guid |-> "",  link |-> ""] }

SeqsUpTo(S, n) == UNION { [1..k -> S] : k \in 1..n }

\* The fetched contents: the order of the entries plays no part in the persist step
\* beyond the order of the survivors, so one order of each multiset is fetched.
EntryRank(e) == IF e.guid = "a" THEN 1 ELSE IF e.guid = "b" THEN 2 ELSE 3
Contents ==
  { s \in SeqsUpTo(RawEntries, MaxItems) :
      \A i \in 1..(Len(s) - 1) : EntryRank(s[i]) <= EntryRank(s[i + 1]) }

Range(s) == { s[i] : i \in DOMAIN s }

\* pubDate of a parsed entry: the published one, or the time of parsing
EntryPubDate(e, t) == IF e.guid = "" THEN t ELSE pubDateOf[e.guid]

\* RSSWorker.updateSingleFeed: the items of UPDATE_COMPLETE (they carry no id and no
\* createdAt yet)
PageGuid(feedId, e, t) ==
  IF e.guid # "" THEN e.guid
  ELSE IF e.link # "" THEN e.link
  ELSE feedId \o "-" \o ToString(t) \o "-random"

PageItems(feedId, content, t) ==
  LET valid == SelectSeq(content, LAMBDA e : e.link # "")
  IN  [i \in 1..Len(valid) |->
         [id |-> "", feedId |-> feedId,
          guid |-> PageGuid(feedId, valid[i], t),
          pubDate |-> EntryPubDate(valid[i], t),
          isRead |-> FALSE, createdAt |-> 0]]

\* RSSServiceWorker.generateId: a fresh random token
GenerateId(n) == "r" \o ToString(n)

\* RSSServiceWorker.parseRSSFeed: guid falls back to link, then to a synthesized value
SWGuid(feedId, e, t, index) ==
  IF e.guid # "" THEN e.guid
  ELSE IF e.link # "" THEN e.link
  ELSE feedId \o "-" \o ToString(t) \o "-" \o ToString(index)

SWItems(feedId, content, t, n) ==
  [i \in 1..Len(content) |->
     [id |-> GenerateId(n + i), feedId |-> feedId,
      guid |-> SWGuid(feedId, content[i], t, i - 1),
      pubDate |-> EntryPubDate(content[i], t),
      isRead |-> FALSE, createdAt |-> t]]

(***************************************************************************)
(* The store.                                                              *)
(***************************************************************************)
\* IDBObjectStore.put: insert, or replace the record with the same key
PutKeepsOld(store, rec) == store \cup {rec}

Put(store, rec) == { x \in store : x.id # rec.id } \cup {rec}

RECURSIVE PutAll(_, _)
PutAll(store, recs) ==
  IF recs = <<>> THEN store ELSE PutAll(Put(store, Head(recs)), Tail(recs))

\* DatabaseService.addFeedItems: the key of a record written by the page-owned path
ItemKey(item) == item.feedId \o "-" \o item.guid

WithKey(items) ==
  [i \in DOMAIN items |-> [items[i] EXCEPT !.id = ItemKey(items[i]), !.createdAt = now]]

\* DatabaseService.getFeedItems(feedId): index by-feedId-pubDate,
\* IDBKeyRange.bound([feedId, new Date(0)], [feedId, new Date()])
DbGetFeedItems(feedId) ==
  { x \in feedItems : x.feedId = feedId /\ Epoch <= x.pubDate /\ x.pubDate <= now }

\* RSSServiceWorker.getFeedItems(feedId): index by-feedId, getAll(feedId)
SWGetFeedItems(feedId) == { x \in feedItems : x.feedId = feedId }

Guids(S) == { x.guid : x \in S }

\* the items whose guid is not in the existing set, in incoming order
FilterNew(items, existingGuids) ==
  SelectSeq(items, LAMBDA item : item.guid \notin existingGuids)

IdleCycle ==
  [actor |-> "none", feedId |-> "none", content |-> <<>>, items |-> <<>>,
   newItems |-> <<>>, pc |-> "idle", count0 |-> 0, rerun |-> FALSE,
   concurrent |-> FALSE, error |-> "none", events |-> {},
   body |-> "none", attempts |-> 0, call |-> 0]

(***************************************************************************)
(* RSSWorker (the page-owned worker).                                      *)
(***************************************************************************)
MaxCmds == 2
MaxFeeds == 4

\* RSSWorker.MAX_RETRY_ATTEMPTS
MAX_RETRY_ATTEMPTS == 3

\* RSSWorker.RETRY_DELAY_BASE, in milliseconds
RETRY_DELAY_BASE == 5000

\* concurrencyLimit of RSSWorker.updateAllFeeds
ConcurrencyLimit == 3

AllFeeds == [i \in 1..MaxFeeds |-> "f" \o ToString(i)]
WorkerFeedIds == Range(AllFeeds)
CallIds == 1..MaxFeeds

\* The failures of one attempt, by the stage that throws, and the message each carries
\* (a message is the sequence of its parts).
TransientErrors == {"NetworkError", "TimeoutError", "HttpError"}
FetchErrors == TransientErrors \cup {"InvalidFormat"}
ParseErrors == {"ParseError", "NoItems"}
ConvertErrors == {"ConvertError"}

ErrorMessage(kind) ==
  CASE kind = "NetworkError"  -> <<"Failed to fetch">>
    [] kind = "TimeoutError"  -> <<"The operation was aborted">>
    [] kind = "HttpError"     -> <<"HTTP ", "status", ": ", "statusText">>
    [] kind = "InvalidFormat" -> <<"Invalid RSS/Atom feed format">>
    [] kind = "ParseError"    -> <<"Feed ", "parsing failed", ": ", "cause">>
    [] kind = "NoItems"       -> <<"Feed contains no items">>
    [] kind = "ConvertError"  -> <<"text.replace is not a function">>

\* String.prototype.includes on a message
Includes(message, part) == \E i \in DOMAIN message : message[i] = part

\* the retry condition of updateSingleFeed's catch block
ShouldRetryAlways(retryCount, message) == retryCount < MAX_RETRY_ATTEMPTS

ShouldRetryOffByOne(retryCount, message) ==
  retryCount <= MAX_RETRY_ATTEMPTS /\ ~Includes(message, "parsing failed")

ShouldRetry(retryCount, message) ==
  retryCount < MAX_RETRY_ATTEMPTS /\ ~Includes(message, "parsing failed")

IdleCall ==
  [feedId |-> "none", pc |-> "idle", retryCount |-> 0, origin |-> "none",
   returned |-> FALSE, lastError |-> "none", fetches |-> 0, errors |-> 0, completes |-> 0,
   scheduled |-> 0, delay |-> 0, status |-> <<>>]

IdleBulk ==
  [pc |-> "idle", nActive |-> 0, inactive |-> {}, active |-> <<>>, chunk |-> 0,
   completed |-> 0, progress |-> <<>>, summary |-> <<>>]

\* RSSServiceWorker after its constructor: no interval, no timeout pending
IdleSW ==
  [isInitialized |-> FALSE, updateIntervals |-> <<>>, pending |-> [f \in FeedIds |-> 0],
   timers |-> {}, nextTimer |-> 1]

NoTick == [actor |-> "none", feedId |-> "none", active |-> FALSE, started |-> FALSE]

\* no fetched feed has been converted to items yet
NotIngested ==
  [pc |-> "idle", actor |-> "none", items |-> <<>>, feedWords |-> {}, globalWords |-> {},
   existing |-> {}, event |-> <<>>]

\* shouldHideContent has not been called yet
NotFiltered == [pc |-> "idle", text |-> <<>>, ignoredWords |-> {}, hidden |-> FALSE]

NothingSeen ==
  [lastTick |-> NoTick, cancelled |-> {}, tornDown |-> FALSE, ingested |-> NotIngested,
   filtered |-> NotFiltered]

\* FeedSource.updateInterval (minutes) when the field is absent
NoInterval == 0

\* the feeds as addFeed stored them
InitialConfig == [title |-> "t0", updateInterval |-> 30]

\* no call of updateFeedLastUpdated or updateFeed is between its get and its put
NoCall == [pc |-> "idle", feedId |-> "none", existing |-> <<>>, updates |-> <<>>, puts |-> 0]
IdleTx == [stamp |-> NoCall, edit |-> NoCall]

Init ==
  /\ feedItems = {}
  /\ lastUpdated = [f \in FeedIds |-> 0]
  /\ now = 1
  /\ nextId = 0
  /\ locksAvailable \in BOOLEAN
  /\ gate = [f \in FeedIds |-> 0]
  /\ pubDateOf \in { d \in [{"a", "b"} -> PubDates] : d["a"] = Past }
  /\ cycles = [c \in Cycles |-> IdleCycle]
  /\ calls = [c \in CallIds |-> IdleCall]
  /\ retryAttempts = <<>>
  /\ bulk = IdleBulk
  /\ updateIntervals = <<>>
  /\ feedSources = <<>>
  /\ timers = {}
  /\ nextTimer = 1
  /\ isActive = [f \in FeedIds |-> TRUE]
  /\ sw = IdleSW
  /\ obs = NothingSeen
  /\ feedConfig = [f \in FeedIds |-> InitialConfig]
  /\ feedTx = IdleTx
  /\ storedFeeds = FeedIds

Release(c) == [f \in FeedIds |-> IF gate[f] = c THEN 0 ELSE gate[f]]

InFlight(c) == cycles[c].pc \notin {"idle", "done", "failed"}

\* An update cycle whose fetch and parse succeeded reaches its persist step.
\*   page: RSSWorker posts UPDATE_COMPLETE, WorkerManager.handleWorkerMessage starts
\*         handleUpdateComplete and passes the message on to its listeners
\*   sw:   RSSServiceWorker.updateFeed calls saveNewFeedItems
\* the cycle as it enters its persist step; call: the updateSingleFeed call whose
\* UPDATE_COMPLETE it handles (0: none on record)
NewCycle(actor, feedId, content, call) ==
  LET items == IF actor = "page" THEN PageItems(feedId, content, now)
               ELSE SWItems(feedId, content, now, nextId)
      again == \E d \in Cycles :
                 /\ cycles[d].pc = "done"
                 /\ cycles[d].actor = actor
                 /\ cycles[d].feedId = feedId
                 /\ cycles[d].content = content
      rerun == again /\ \A d \in Cycles : ~InFlight(d)
  IN  [actor |-> actor, feedId |-> feedId, content |-> content,
       items |-> items, newItems |-> <<>>,
       pc |-> IF actor = "sw" /\ Len(items) = 0 THEN "stamp" ELSE "request",
       count0 |-> IF rerun THEN Cardinality(SWGetFeedItems(feedId)) ELSE 0,
       rerun |-> rerun,
       concurrent |-> \E d \in Cycles : InFlight(d) /\ cycles[d].feedId = feedId,
       error |-> "none",
       events |-> IF actor = "page" THEN {"UPDATE_COMPLETE"} ELSE {},
       body |-> "feed", attempts |-> 1, call |-> call]

StartCycle(c, actor, feedId, content) ==
  /\ cycles[c].pc = "idle"
  /\ \A d \in Cycles : d < c => cycles[d].pc # "idle"
  /\ cycles' = [cycles EXCEPT ![c] = NewCycle(actor, feedId, content, 0)]
  /\ nextId' = IF actor = "sw" THEN nextId + Len(content) ELSE nextId
  /\ UNCHANGED <<feedItems, lastUpdated, now, locksAvailable, gate, pubDateOf>>
  /\ UNCHANGED <<workerVars, schedVars, feedVars>>

\* navigator.locks.request(lockName, callback): granted when nobody holds the name;
\* without the Web Locks API the callback's body runs unguarded.
AcquireGuardAlways(feedId) == TRUE

AcquireGuard(feedId) == gate[feedId] = 0

RequestNoFallback(c) ==
  /\ cycles[c].pc = "request"
  /\ IF locksAvailable
     THEN /\ AcquireGuard(cycles[c].feedId)
          /\ gate' = [gate EXCEPT ![cycles[c].feedId] = c]
          /\ cycles' = [cycles EXCEPT ![c].pc = "read"]
     ELSE /\ gate' = gate
          /\ cycles' = [cycles EXCEPT ![c].pc = "failed", ![c].error = "TypeError"]
  /\ UNCHANGED <<feedItems, lastUpdated, now, nextId, locksAvailable, pubDateOf>>
  /\ UNCHANGED <<workerVars, schedVars, feedVars>>

Request(c) ==
  /\ cycles[c].pc = "request"
  /\ IF locksAvailable
     THEN /\ AcquireGuard(cycles[c].feedId)
          /\ gate' = [gate EXCEPT ![cycles[c].feedId] = c]
     ELSE gate' = gate
  /\ cycles' = [cycles EXCEPT ![c].pc = "read"]
  /\ UNCHANGED <<feedItems, lastUpdated, now, nextId, locksAvailable, pubDateOf>>
  /\ UNCHANGED <<workerVars, schedVars, feedVars>>

\* saveFeedItems / performSaveNewFeedItems: read the existing guids, keep the new items
ExistingGuids(actor, feedId) ==
  IF actor = "page" THEN Guids(DbGetFeedItems(feedId)) ELSE Guids(SWGetFeedItems(feedId))

Read(c) ==
  /\ cycles[c].pc = "read"
  /\ LET cy == cycles[c]
         new == FilterNew(cy.items, ExistingGuids(cy.actor, cy.feedId))
     IN  IF Len(new) > 0
         THEN /\ cycles' = [cycles EXCEPT ![c].newItems = new, ![c].pc = "write"]
              /\ gate' = gate
         ELSE IF cy.actor = "page"
         THEN /\ cycles' = [cycles EXCEPT ![c].pc = "stamp"]
              /\ gate' = gate
         ELSE /\ cycles' = [cycles EXCEPT ![c].pc = "stamp"]
              /\ gate' = Release(c)
  /\ UNCHANGED <<feedItems, lastUpdated, now, nextId, locksAvailable, pubDateOf>>
  /\ UNCHANGED <<workerVars, schedVars, feedVars>>

TxOutcomes == {"complete", "error", "abort"}

\* IDBObjectStore.add fails with ConstraintError when the key is already stored
AddConflict(store, recs) ==
  \/ \E i \in DOMAIN recs : \E x \in store : x.id = recs[i].id
  \/ \E i, j \in DOMAIN recs : i # j /\ recs[i].id = recs[j].id

\* page: DatabaseService.addFeedItems (one readwrite transaction of put requests);
\*       tx.done rejects on error and on abort, the error is rethrown and
\*       handleUpdateComplete, which nobody awaits, logs it and rethrows it
PageWrite(c, outcome) ==
  /\ cycles[c].pc = "write"
  /\ cycles[c].actor = "page"
  /\ IF outcome = "complete"
     THEN /\ feedItems' = PutAll(feedItems, WithKey(cycles[c].newItems))
          /\ cycles' = [cycles EXCEPT ![c].pc = "stamp"]
          /\ gate' = gate
     ELSE /\ feedItems' = feedItems
          /\ cycles' = [cycles EXCEPT ![c].pc = "failed", ![c].error = "StorageError"]
          /\ gate' = Release(c)
  /\ UNCHANGED <<lastUpdated, now, nextId, locksAvailable, pubDateOf>>
  /\ UNCHANGED <<workerVars, schedVars, feedVars>>

\* sw: performSaveNewFeedItems (one readwrite transaction of add requests); the
\*     promise is settled by transaction.oncomplete and transaction.onerror only;
\*     a rejection reaches the catch block of updateFeed, which posts FEED_UPDATE_ERROR
SWWrite(c, outcome) ==
  /\ cycles[c].pc = "write"
  /\ cycles[c].actor = "sw"
  /\ outcome = "complete" => ~AddConflict(feedItems, cycles[c].newItems)
  /\ CASE outcome = "complete" ->
            /\ feedItems' = feedItems \cup Range(cycles[c].newItems)
            /\ cycles' = [cycles EXCEPT ![c].pc = "stamp"]
            /\ gate' = Release(c)
       [] outcome = "error" ->
            /\ feedItems' = feedItems
            /\ cycles' = [cycles EXCEPT ![c].pc = "failed", ![c].error = "StorageError",
                                        ![c].events = @ \cup {"FEED_UPDATE_ERROR"}]
            /\ gate' = Release(c)
       [] outcome = "abort" ->
            /\ feedItems' = feedItems
            /\ cycles' = [cycles EXCEPT ![c].pc = "pending"]
            /\ gate' = gate
  /\ UNCHANGED <<lastUpdated, now, nextId, locksAvailable, pubDateOf>>
  /\ UNCHANGED <<workerVars, schedVars, feedVars>>

\* page: dbService.updateFeedLastUpdated inside the gate, window event
\*       'rss-worker-complete', then the gate is released
\* sw:   updateFeedTimestamp after saveNewFeedItems has returned, FEED_UPDATED to the
\*       clients
\* (no other writer of 'feedSources' takes part here: the get and the put of the page
\* path are one step; SpecFeedStore has them apart)
Stamp(c) ==
  /\ cycles[c].pc = "stamp"
  /\ lastUpdated' = IF cycles[c].feedId \in storedFeeds
                    THEN [lastUpdated EXCEPT ![cycles[c].feedId] = now]
                    ELSE lastUpdated
  /\ cycles' = [cycles EXCEPT ![c].pc = "done",
                              ![c].events = @ \cup {IF cycles[c].actor = "page"
                                                    THEN "rss-worker-complete"
                                                    ELSE "FEED_UPDATED"}]
  /\ gate' = Release(c)
  /\ UNCHANGED <<feedItems, now, nextId, locksAvailable, pubDateOf>>
  /\ UNCHANGED <<workerVars, schedVars, feedVars>>

Tick ==
  /\ now < MaxNow
  /\ now' = now + 1
  /\ UNCHANGED <<feedItems, lastUpdated, nextId, locksAvailable, gate, pubDateOf, cycles>>
  /\ UNCHANGED <<workerVars, schedVars, feedVars>>

CycleStep(c) ==
  \/ Request(c)
  \/ Read(c)
  \/ \E o \in TxOutcomes : PageWrite(c, o)
  \/ \E o \in TxOutcomes : SWWrite(c, o)
  \/ Stamp(c)

Next ==
  \/ \E c \in Cycles, actor \in {"page", "sw"}, f \in FeedIds, content \in Contents :
       StartCycle(c, actor, f, content)
  \/ \E c \in Cycles : Request(c)
  \/ \E c \in Cycles : Read(c)
  \/ \E c \in Cycles, o \in TxOutcomes : PageWrite(c, o)
  \/ \E c \in Cycles, o \in TxOutcomes : SWWrite(c, o)
  \/ \E c \in Cycles : Stamp(c)
  \/ Tick

Spec == Init /\ [][Next]_vars

\* The same cycles on feeds that publish a single entry, at one time of the clock:
\* the interleavings of the gate without the variety of the contents.
GateContents == { s \in Contents : Len(s) = 1 }

NextGate ==
  \/ \E c \in Cycles, actor \in {"page", "sw"}, f \in FeedIds, content \in GateContents :
       StartCycle(c, actor, f, content)
  \/ \E c \in Cycles : Request(c)
  \/ \E c \in Cycles : Read(c)
  \/ \E c \in Cycles, o \in TxOutcomes : PageWrite(c, o)
  \/ \E c \in Cycles, o \in TxOutcomes : SWWrite(c, o)
  \/ \E c \in Cycles : Stamp(c)

SpecGate == Init /\ [][NextGate]_vars

\* the reading UI: DatabaseService.markAsRead([item.id])
MarkAsRead(item) ==
  /\ item \in feedItems /\ ~item.isRead
  /\ feedItems' = { IF x.id = item.id THEN [x EXCEPT !.isRead = TRUE] ELSE x : x \in feedItems }
  /\ UNCHANGED <<lastUpdated, now, nextId, locksAvailable, gate, pubDateOf, cycles>>
  /\ UNCHANGED <<workerVars, schedVars, feedVars>>

\* the cycles on single-entry feeds, with a reader marking stored items as read
NextReader ==
  \/ NextGate
  \/ \E item \in feedItems : MarkAsRead(item)

SpecReader == Init /\ [][NextReader]_vars

(***************************************************************************)
(* Part I: properties of the persist step.                                 *)
(***************************************************************************)
StoredOf(feedId) == { x \in feedItems : x.feedId = feedId }
RecordsOf(feedId, guid) == { x \in feedItems : x.feedId = feedId /\ x.guid = guid }
ItemGuids(c) == Guids(Range(cycles[c].items))
NoRepeatedGuid(c) == Cardinality(ItemGuids(c)) = Len(cycles[c].items)

\* the cycle is inside its read-existing-guids / dedup / write-new-items sequence
InSection(c) == cycles[c].pc \in {"read", "write", "pending"}

\* the cycle is inside the callback it passed to navigator.locks.request
InCallback(c) ==
  \/ InSection(c)
  \/ cycles[c].actor = "page" /\ cycles[c].pc = "stamp"

\* C1: with the gate available, two concurrent cycles of one feed whose fetched item
\* sets overlap leave exactly one stored record per guid of the union of both sets.
C1_UnionStoredOnce ==
  locksAvailable =>
    \A c, d \in Cycles :
      ( /\ c # d
        /\ cycles[c].pc = "done" /\ cycles[d].pc = "done"
        /\ cycles[c].feedId = cycles[d].feedId
        /\ cycles[d].concurrent
        /\ NoRepeatedGuid(c) /\ NoRepeatedGuid(d)
        /\ ItemGuids(c) \cap ItemGuids(d) # {} )
      => \A g \in ItemGuids(c) \cup ItemGuids(d) :
           Cardinality(RecordsOf(cycles[c].feedId, g)) = 1

\* C2: no two stored items of one feed share a guid.
C2_GuidUniquePerFeed ==
  \A x, y \in feedItems : (x.feedId = y.feedId /\ x.guid = y.guid) => x = y

\* C3: with the gate available, two cycles are inside their read / dedup / write
\* sequence at the same time only for different feed ids, and a cycle that requests
\* the gate of a feed whose gate no other cycle holds is granted it.
C3_GateMutualExclusion ==
  locksAvailable =>
    /\ \A c, d \in Cycles :
         (c # d /\ InSection(c) /\ InSection(d)) => cycles[c].feedId # cycles[d].feedId
    /\ \A c \in Cycles :
         ( /\ cycles[c].pc = "request"
           /\ \A d \in Cycles : InCallback(d) => cycles[d].feedId # cycles[c].feedId )
         => ENABLED Request(c)

\* a cycle waits for the gate of a feed while another is inside its sequence
C3_Witness ==
  /\ locksAvailable
  /\ \E c, d \in Cycles :
       /\ c # d
       /\ cycles[c].feedId = cycles[d].feedId
       /\ cycles[c].actor # cycles[d].actor
       /\ cycles[c].pc = "write"
       /\ cycles[d].pc = "request"

\* C4: whoever holds a feed's gate can still take the step that leads to its release.
C4_GateReleased ==
  \A c \in Cycles :
    (cycles[c].pc # "idle" /\ gate[cycles[c].feedId] = c) => ENABLED CycleStep(c)

\* C5: a cycle that runs again with the content of a finished cycle of the same
\* actor and feed leaves the number of stored items of the feed unchanged.
C5_RerunKeepsCount ==
  \A c \in Cycles :
    (cycles[c].rerun /\ cycles[c].pc = "done")
      => Cardinality(StoredOf(cycles[c].feedId)) = cycles[c].count0

\* C6: every stored item has the identity feedId + "-" + guid.
C6_StoredIdentity ==
  \A x \in feedItems : x.id = x.feedId \o "-" \o x.guid

(***************************************************************************)
(* Part II: RSSWorker.updateSingleFeed.  A call is the chain of            *)
(* invocations one trigger starts: the first attempt and the retries its   *)
(* catch block schedules with setTimeout.                                  *)
(***************************************************************************)
\* Map.prototype.set / delete on retryAttempts
SetRetry(feedId, n) ==
  [f \in (DOMAIN retryAttempts) \cup {feedId} |-> IF f = feedId THEN n ELSE retryAttempts[f]]

DeleteRetry(feedId) ==
  [f \in (DOMAIN retryAttempts) \ {feedId} |-> retryAttempts[f]]

\* updateSingleFeed(feedId, feedUrl, retryCount) up to its first await:
\* posts UPDATE_PROGRESS 0 and starts the fetch
Started(call, feedId, origin, retryCount) ==
  [call EXCEPT !.feedId = feedId, !.origin = origin, !.pc = "fetching",
               !.retryCount = retryCount, !.fetches = @ + 1, !.lastError = "none"]

\* the catch block of updateSingleFeed: the delay of the retry's setTimeout and the
\* status of the UPDATE_PROGRESS message posted with it
RetryDelayLinear(retryCount) == RETRY_DELAY_BASE * (retryCount + 1)

RetryDelay(retryCount) == RETRY_DELAY_BASE * 2^retryCount

RetryStatus(retryCount) ==
  <<"Retrying in ", RetryDelay(retryCount) \div 1000, "s... (",
    retryCount + 1, "/", MAX_RETRY_ATTEMPTS, ")">>

\* the catch block of updateSingleFeed: schedule a retry, or report the final error
\* (lastError records the failure behind it for the calls an UPDATE_FEED command started)
Observed(call, kind) == IF call.origin = "cmd" THEN kind ELSE "none"

CaughtDropsRetry(call, kind) ==
  IF ShouldRetry(call.retryCount, ErrorMessage(kind))
  THEN [call EXCEPT !.pc = "dropped", !.lastError = Observed(call, kind)]
  ELSE [call EXCEPT !.pc = "failed", !.lastError = Observed(call, kind), !.errors = @ + 1]

Caught(call, kind) ==
  IF ShouldRetry(call.retryCount, ErrorMessage(kind))
  THEN [call EXCEPT !.pc = "backoff", !.lastError = Observed(call, kind),
                    !.scheduled = @ + 1,
                    !.delay = RetryDelay(call.retryCount),
                    !.status = RetryStatus(call.retryCount)]
  ELSE [call EXCEPT !.pc = "failed", !.lastError = Observed(call, kind), !.errors = @ + 1]

RetryAttemptsAfterCleared(call, kind) ==
  IF ShouldRetry(call.retryCount, ErrorMessage(kind))
  THEN retryAttempts
  ELSE DeleteRetry(call.feedId)

RetryAttemptsAfter(call, kind) ==
  IF ShouldRetry(call.retryCount, ErrorMessage(kind))
  THEN retryAttempts
  ELSE SetRetry(call.feedId, call.retryCount)

\* updateAllFeeds: the batch a position of activeFeeds belongs to
ChunkOfWide(i) == ((i - 1) \div (ConcurrencyLimit + 1)) + 1

ChunkOf(i) == ((i - 1) \div ConcurrencyLimit) + 1

\* updateAllFeeds, the finally block: completed++
CountFinishedOnSuccess(completed, failed) == IF failed THEN completed ELSE completed + 1

CountFinished(completed, failed) == completed + 1

\* updateAllFeeds after the awaited updateSingleFeed of one feed has returned: count it,
\* post the running progress and, when the whole batch has returned, start the next
\* batch or post FEEDS_UPDATED.  cs: the calls after the return.
BulkAfterReturn(cs, failed) ==
  LET n == Len(bulk.active)
      done == CountFinished(bulk.completed, failed)
      b == [bulk EXCEPT !.completed = done, !.progress = Append(@, done)]
      batchReturned == \A i \in 1..n : ChunkOf(i) = bulk.chunk => cs[i].returned
      lastBatch == bulk.chunk * ConcurrencyLimit >= n
  IN  IF ~batchReturned THEN [calls |-> cs, bulk |-> b]
      ELSE IF lastBatch
      THEN [calls |-> cs,
            bulk |-> [b EXCEPT !.pc = "done",
                               !.summary = [totalFeeds |-> n, completedFeeds |-> done]]]
      ELSE [calls |-> [i \in CallIds |->
                         IF i <= n /\ ChunkOf(i) = bulk.chunk + 1
                         THEN Started(cs[i], bulk.active[i], "bulk", 0)
                         ELSE cs[i]],
            bulk |-> [b EXCEPT !.chunk = @ + 1]]

\* An invocation of call c returns, leaving the call as newCall.
Return(c, newCall, failed) ==
  IF calls[c].origin = "bulk" /\ ~calls[c].returned
  THEN LET r == BulkAfterReturn([calls EXCEPT ![c] = [newCall EXCEPT !.returned = TRUE]],
                                failed)
       IN  calls' = r.calls /\ bulk' = r.bulk
  ELSE calls' = [calls EXCEPT ![c] = newCall] /\ bulk' = bulk

\* handleMessage, UPDATE_FEED: updateSingleFeed(feedId, feedUrl)
UpdateFeedCmd(c, feedId) ==
  /\ c <= MaxCmds
  /\ bulk.pc = "idle"
  /\ calls[c].pc = "idle"
  /\ \A d \in CallIds : d < c => calls[d].pc # "idle"
  /\ calls' = [calls EXCEPT ![c] = Started(calls[c], feedId, "cmd", 0)]
  /\ UNCHANGED <<retryAttempts, bulk>>
  /\ UNCHANGED <<storeVars, schedVars, feedVars>>

\* the fetch through the proxy settles: a feed-shaped body, or a failure
FetchReturn(c, result) ==
  /\ calls[c].pc = "fetching"
  /\ IF result = "ok"
     THEN /\ calls' = [calls EXCEPT ![c].pc = "parsing"]
          /\ UNCHANGED <<retryAttempts, bulk>>
     ELSE /\ result \in FetchErrors
          /\ retryAttempts' = RetryAttemptsAfter(calls[c], result)
          /\ Return(c, Caught(calls[c], result), TRUE)
  /\ UNCHANGED <<storeVars, schedVars, feedVars>>

\* parser.parseString settles: a feed with items, a parse failure, or no items
ParseReturn(c, result) ==
  /\ calls[c].pc = "parsing"
  /\ IF result = "ok"
     THEN /\ calls' = [calls EXCEPT ![c].pc = "filtering"]
          /\ UNCHANGED <<retryAttempts, bulk>>
     ELSE /\ result \in ParseErrors
          /\ retryAttempts' = RetryAttemptsAfter(calls[c], result)
          /\ Return(c, Caught(calls[c], result), TRUE)
  /\ UNCHANGED <<storeVars, schedVars, feedVars>>

\* the conversion of the items settles (the og:image lookups never reject): either
\* UPDATE_PROGRESS 100, retryAttempts.delete(feedId), UPDATE_COMPLETE, or a helper threw
FilterReturn(c, result) ==
  /\ calls[c].pc = "filtering"
  /\ IF result = "ok"
     THEN /\ retryAttempts' = DeleteRetry(calls[c].feedId)
          /\ Return(c, [calls[c] EXCEPT !.pc = "complete", !.completes = @ + 1], FALSE)
     ELSE /\ result \in ConvertErrors
          /\ retryAttempts' = RetryAttemptsAfter(calls[c], result)
          /\ Return(c, Caught(calls[c], result), TRUE)
  /\ UNCHANGED <<storeVars, schedVars, feedVars>>

\* the timer of a retry, or one left behind by a completed update, fires
RetryFireAfterSuccess(c) ==
  /\ calls[c].pc \in {"backoff", "complete"}
  /\ calls[c].retryCount < MAX_RETRY_ATTEMPTS
  /\ calls' = [calls EXCEPT ![c] =
        Started(calls[c], calls[c].feedId, calls[c].origin, calls[c].retryCount + 1)]
  /\ UNCHANGED <<retryAttempts, bulk>>
  /\ UNCHANGED <<storeVars, schedVars, feedVars>>

\* the timer set by the catch block fires: updateSingleFeed(feedId, feedUrl, retryCount + 1)
RetryFire(c) ==
  /\ calls[c].pc = "backoff"
  /\ calls' = [calls EXCEPT ![c] =
        Started(calls[c], calls[c].feedId, calls[c].origin, calls[c].retryCount + 1)]
  /\ UNCHANGED <<retryAttempts, bulk>>
  /\ UNCHANGED <<storeVars, schedVars, feedVars>>

NextRetry ==
  \/ \E c \in CallIds, f \in {AllFeeds[1], AllFeeds[2]} : UpdateFeedCmd(c, f)
  \/ \E c \in CallIds, r \in {"ok"} \cup FetchErrors : FetchReturn(c, r)
  \/ \E c \in CallIds, r \in {"ok"} \cup ParseErrors : ParseReturn(c, r)
  \/ \E c \in CallIds, r \in {"ok"} \cup ConvertErrors : FilterReturn(c, r)
  \/ \E c \in CallIds : RetryFire(c)

\* the worker's specifications start from one state of the store
InitWorker ==
  /\ Init
  /\ locksAvailable
  /\ pubDateOf = [g \in {"a", "b"} |-> Past]

SpecRetry == InitWorker /\ [][NextRetry]_vars

(***************************************************************************)
(* Part III: RSSWorker.updateAllFeeds.                                     *)
(***************************************************************************)
\* the feed lists of an UPDATE_ALL_FEEDS command: the first n feeds, each active or not
FeedLists ==
  UNION { [1..n -> { [id |-> AllFeeds[i], isActive |-> a] : i \in 1..MaxFeeds, a \in BOOLEAN }]
            : n \in 0..MaxFeeds }

BulkInputs == { l \in FeedLists : \A i \in DOMAIN l : l[i].id = AllFeeds[i] }

ActiveFeeds(feeds) ==
  LET act == SelectSeq(feeds, LAMBDA feed : feed.isActive)
  IN  [i \in 1..Len(act) |-> act[i].id]

\* handleMessage, UPDATE_ALL_FEEDS: updateAllFeeds(feeds) up to its first await
BulkStart(feeds) ==
  /\ bulk.pc = "idle"
  /\ \A c \in CallIds : calls[c].pc = "idle"
  /\ LET active == ActiveFeeds(feeds)
         n == Len(active)
         b == [bulk EXCEPT !.nActive = Cardinality({ i \in DOMAIN feeds : feeds[i].isActive }),
                           !.inactive = { feeds[i].id : i \in { j \in DOMAIN feeds : ~feeds[j].isActive } },
                           !.active = active, !.progress = <<0>>]
     IN  IF n = 0
         THEN /\ bulk' = [b EXCEPT !.pc = "done",
                                   !.summary = [totalFeeds |-> 0, completedFeeds |-> 0]]
              /\ calls' = calls
         ELSE /\ bulk' = [b EXCEPT !.pc = "running", !.chunk = 1]
              /\ calls' = [i \in CallIds |->
                             IF i <= n /\ ChunkOf(i) = 1
                             THEN Started(calls[i], active[i], "bulk", 0)
                             ELSE calls[i]]
  /\ UNCHANGED retryAttempts
  /\ UNCHANGED <<storeVars, schedVars, feedVars>>

NextBulk ==
  \/ \E feeds \in BulkInputs : BulkStart(feeds)
  \/ \E c \in CallIds, r \in {"ok"} \cup FetchErrors : FetchReturn(c, r)
  \/ \E c \in CallIds, r \in {"ok"} \cup ParseErrors : ParseReturn(c, r)
  \/ \E c \in CallIds, r \in {"ok"} \cup ConvertErrors : FilterReturn(c, r)
  \/ \E c \in CallIds : RetryFire(c)

SpecBulk == InitWorker /\ [][NextBulk]_vars

(***************************************************************************)
(* Properties of the retry chain and of the bulk update.                   *)
(***************************************************************************)
CmdCalls == { c \in CallIds : calls[c].origin = "cmd" }

\* C7: a single-feed update whose attempts keep failing transiently makes exactly 3
\* retries after the first attempt (4 fetches), then reports one final error, and once
\* the final error is reported the feed is not fetched again by that update.
C7_RetryCeiling ==
  /\ [](\A c \in CmdCalls :
          /\ calls[c].fetches = calls[c].retryCount + 1
          /\ calls[c].errors = (IF calls[c].pc = "failed" THEN 1 ELSE 0)
          /\ (calls[c].pc = "failed" /\ calls[c].lastError \in TransientErrors)
               => /\ calls[c].retryCount = MAX_RETRY_ATTEMPTS
                  /\ calls[c].fetches = MAX_RETRY_ATTEMPTS + 1)
  /\ [][\A c \in CallIds : calls[c].pc = "failed" => calls'[c] = calls[c]]_vars

C7_Witness ==
  \E c \in CmdCalls :
    /\ calls[c].pc = "failed"
    /\ calls[c].lastError \in TransientErrors
    /\ calls[c].fetches = 4
    /\ calls[c].errors = 1

\* C8: an InvalidFormat failure (a body that is not feed-shaped, or a feed with no
\* items) is terminal: the final error is reported at once and no retry is scheduled.
C8_InvalidFormatTerminal ==
  \A c \in CmdCalls :
    calls[c].lastError \in {"InvalidFormat", "NoItems"}
      => calls[c].pc = "failed" /\ calls[c].errors = 1

C10_BulkSummary ==
  /\ bulk.pc = "running" =>
       \E i \in 1..Len(bulk.active) :
         /\ ChunkOf(i) = bulk.chunk
         /\ ~calls[i].returned
         /\ calls[i].pc \in {"fetching", "parsing", "filtering"}
  /\ bulk.pc = "done" =>
       /\ bulk.summary.totalFeeds = bulk.nActive
       /\ bulk.summary.completedFeeds = bulk.nActive
       /\ bulk.progress = [k \in 1..(bulk.nActive + 1) |-> k - 1]
       /\ \A i \in 1..bulk.nActive :
            /\ calls[i].feedId = bulk.active[i]
            /\ calls[i].fetches >= 1

C10_Witness ==
  /\ bulk.pc = "done"
  /\ bulk.nActive = 4
  /\ bulk.summary.completedFeeds = 4
  /\ calls[1].pc = "failed"
  /\ calls[2].pc = "backoff"
  /\ calls[4].fetches >= 1

BulkCalls == { c \in CallIds : calls[c].origin = "bulk" }

\* the awaited updateSingleFeed of call c has not returned yet
Running(c) == calls[c].pc # "idle" /\ ~calls[c].returned

RunningProgress == Tail(bulk.progress)

\* C12: the running progress messages of a bulk update over N feeds carry
\* completedFeeds 1, 2, ..., N in that order, one for each call that has returned,
\* failed or not, never above totalFeeds; the summary is posted once, after the N-th.
C12_ProgressSequence ==
  /\ [](bulk.pc # "idle" =>
          /\ bulk.progress[1] = 0
          /\ Len(RunningProgress) = Cardinality({ c \in BulkCalls : calls[c].returned })
          /\ Len(RunningProgress) <= bulk.nActive
          /\ \A k \in DOMAIN RunningProgress : RunningProgress[k] = k
          /\ (bulk.summary # <<>>) <=> (bulk.pc = "done")
          /\ bulk.pc = "done" => Len(RunningProgress) = bulk.nActive)
  /\ [][bulk.pc = "done" => bulk' = bulk]_vars

C12_Witness ==
  /\ bulk.pc = "done"
  /\ RunningProgress = <<1, 2, 3, 4>>
  /\ calls[1].pc = "complete"
  /\ calls[2].pc = "failed"
  /\ calls[3].pc = "backoff"

(***************************************************************************)
(* Part IV: the schedulers.  RSSWorker.scheduleUpdate / cancelScheduledUpdate *)
(* / cleanup in the page worker (SpecSched), RSSServiceWorker's            *)
(* scheduleFeedUpdate and refreshFeedSchedules (SpecSWSched).              *)
(***************************************************************************)
MaxTimers == 3
MaxTickCalls == 1
MaxPending == 2

SchedFeeds == {AllFeeds[1], AllFeeds[2]}

\* Map.prototype.set / delete
MapPut(m, k, v) == [x \in (DOMAIN m) \cup {k} |-> IF x = k THEN v ELSE m[x]]
MapRemove(m, k) == [x \in (DOMAIN m) \ {k} |-> m[x]]

\* cancelScheduledUpdate(feedId): the timers and the map it leaves
CancelScheduledKeepsTimer(feedId) ==
  [timers |-> timers, updateIntervals |-> MapRemove(updateIntervals, feedId)]

CancelScheduled(feedId) ==
  IF feedId \in DOMAIN updateIntervals
  THEN [timers |-> { t \in timers : t.id # updateIntervals[feedId] },
        updateIntervals |-> MapRemove(updateIntervals, feedId)]
  ELSE [timers |-> timers, updateIntervals |-> updateIntervals]

\* handleMessage, SCHEDULE_UPDATE: scheduleUpdate(feedId, interval)
ScheduleUpdateCmd(feedId) ==
  /\ nextTimer <= MaxTimers
  /\ LET c == CancelScheduled(feedId)
     IN  /\ timers' = c.timers \cup {[id |-> nextTimer, feedId |-> feedId]}
         /\ updateIntervals' = MapPut(c.updateIntervals, feedId, nextTimer)
  /\ nextTimer' = nextTimer + 1
  /\ obs' = [obs EXCEPT !.cancelled = @ \ {feedId}, !.tornDown = FALSE]
  /\ UNCHANGED <<feedSources, isActive, sw>>
  /\ UNCHANGED <<workerVars, storeVars, feedVars>>

\* handleMessage, CANCEL_UPDATE: cancelScheduledUpdate(feedId)
CancelUpdateCmd(feedId) ==
  /\ LET c == CancelScheduled(feedId)
     IN  timers' = c.timers /\ updateIntervals' = c.updateIntervals
  /\ obs' = [obs EXCEPT !.cancelled = @ \cup {feedId}, !.tornDown = FALSE]
  /\ UNCHANGED <<feedSources, nextTimer, isActive, sw>>
  /\ UNCHANGED <<workerVars, storeVars, feedVars>>

\* the payloads of SET_FEED_SOURCES (WorkerManager.syncFeedSources sends every feed the
\* store holds at the time): feed configs, of which isActive matters here
SourceLists == UNION { [S -> [isActive : BOOLEAN]] : S \in SUBSET SchedFeeds }

\* handleMessage, SET_FEED_SOURCES
SetFeedSourcesCmd(feeds) ==
  /\ feedSources' = [f \in (DOMAIN feedSources) \cup (DOMAIN feeds) |->
                       IF f \in DOMAIN feeds THEN feeds[f] ELSE feedSources[f]]
  /\ obs' = [obs EXCEPT !.tornDown = FALSE]
  /\ UNCHANGED <<updateIntervals, timers, nextTimer, isActive, sw>>
  /\ UNCHANGED <<workerVars, storeVars, feedVars>>

\* handleMessage, CLEANUP: cleanup()
CleanupCmd ==
  /\ timers' = { t \in timers : \A f \in DOMAIN updateIntervals : updateIntervals[f] # t.id }
  /\ updateIntervals' = <<>>
  /\ feedSources' = <<>>
  /\ retryAttempts' = <<>>
  /\ obs' = [obs EXCEPT !.tornDown = TRUE]
  /\ UNCHANGED <<calls, bulk>>
  /\ UNCHANGED <<nextTimer, isActive, sw>>
  /\ UNCHANGED <<storeVars, feedVars>>

\* the callback of a recurring timer of the page worker
TimerTick(t) ==
  /\ t \in timers
  /\ LET known == t.feedId \in DOMAIN feedSources
         active == known /\ feedSources[t.feedId].isActive
     IN  /\ IF active
            THEN \E c \in 1..MaxTickCalls :
                   /\ calls[c].pc = "idle"
                   /\ \A d \in CallIds : d < c => calls[d].pc # "idle"
                   /\ calls' = [calls EXCEPT ![c] = Started(calls[c], t.feedId, "tick", 0)]
            ELSE calls' = calls
         /\ obs' = [obs EXCEPT !.lastTick = [actor |-> "page", feedId |-> t.feedId,
                                             active |-> active, started |-> active]]
  /\ UNCHANGED <<retryAttempts, bulk>>
  /\ UNCHANGED <<updateIntervals, feedSources, timers, nextTimer, isActive, sw>>
  /\ UNCHANGED <<storeVars, feedVars>>

TimerIds == 1..MaxTimers
AllTimers == [id : TimerIds, feedId : SchedFeeds]

NextSched ==
  \/ \E f \in SchedFeeds : ScheduleUpdateCmd(f)
  \/ \E f \in SchedFeeds : CancelUpdateCmd(f)
  \/ \E feeds \in SourceLists : SetFeedSourcesCmd(feeds)
  \/ CleanupCmd
  \/ \E t \in AllTimers : TimerTick(t)
  \/ \E c \in CallIds, r \in {"ok"} \cup FetchErrors : FetchReturn(c, r)
  \/ \E c \in CallIds, r \in {"ok"} \cup ParseErrors : ParseReturn(c, r)
  \/ \E c \in CallIds, r \in {"ok"} \cup ConvertErrors : FilterReturn(c, r)
  \/ \E c \in CallIds : RetryFire(c)

SpecSched == InitWorker /\ [][NextSched]_vars

(***************************************************************************)
(* RSSServiceWorker: scheduleFeedUpdate, refreshFeedSchedules.             *)
(***************************************************************************)
\* scheduleFeedUpdate(feed): clears the interval on record and sets the timeout of the
\* first update; w is the service worker's scheduler state
ScheduleFeedUpdate(w, feedId) ==
  [w EXCEPT !.timers = IF feedId \in DOMAIN w.updateIntervals
                       THEN { t \in @ : t.id # w.updateIntervals[feedId] }
                       ELSE @,
            !.pending = [f \in SchedFeeds |-> IF f = feedId THEN @[f] + 1 ELSE @[f]]]

\* the test of setupBackgroundSync and of WorkerManager.scheduleAllFeeds:
\* feed.updateInterval && feed.isActive
HasSchedule(feedId) ==
  feedConfig[feedId].updateInterval # NoInterval /\ isActive[feedId]

\* setupBackgroundSync: scheduleFeedUpdate for each feed that passes the test, in the
\* order of the store
RECURSIVE SetupFrom(_, _)
SetupFrom(w, i) ==
  IF i > Cardinality(SchedFeeds) THEN w
  ELSE SetupFrom(IF HasSchedule(AllFeeds[i]) THEN ScheduleFeedUpdate(w, AllFeeds[i]) ELSE w, i + 1)

CanSetup == \A f \in SchedFeeds : sw.pending[f] < MaxPending

\* initialize(): setupBackgroundSync()
SWInitialize ==
  /\ ~sw.isInitialized
  /\ sw' = [SetupFrom(sw, 1) EXCEPT !.isInitialized = TRUE]
  /\ UNCHANGED <<updateIntervals, feedSources, timers, nextTimer, isActive, obs>>
  /\ UNCHANGED <<workerVars, storeVars, feedVars>>

\* handleMessage, REFRESH_SCHEDULES: refreshFeedSchedules()
SWRefresh ==
  /\ CanSetup
  /\ LET cleared == [sw EXCEPT
                       !.timers = { t \in @ : \A f \in DOMAIN sw.updateIntervals :
                                                sw.updateIntervals[f] # t.id },
                       !.updateIntervals = <<>>]
     IN  sw' = SetupFrom(cleared, 1)
  /\ UNCHANGED <<updateIntervals, feedSources, timers, nextTimer, isActive, obs>>
  /\ UNCHANGED <<workerVars, storeVars, feedVars>>

\* the timeout of scheduleFeedUpdate fires: the first update, then the recurring timer
SWTimeoutFire(feedId) ==
  /\ sw.pending[feedId] > 0
  /\ sw.nextTimer <= MaxTimers
  /\ sw' = [sw EXCEPT !.pending[feedId] = @ - 1,
                      !.timers = @ \cup {[id |-> sw.nextTimer, feedId |-> feedId]},
                      !.updateIntervals = MapPut(@, feedId, sw.nextTimer),
                      !.nextTimer = @ + 1]
  /\ UNCHANGED <<updateIntervals, feedSources, timers, nextTimer, isActive, obs>>
  /\ UNCHANGED <<workerVars, storeVars, feedVars>>

\* the callback of a recurring timer of the service worker: updateFeed(feed)
SWTimerTick(t) ==
  /\ t \in sw.timers
  /\ obs' = [obs EXCEPT !.lastTick = [actor |-> "sw", feedId |-> t.feedId,
                                      active |-> isActive[t.feedId], started |-> TRUE]]
  /\ UNCHANGED <<updateIntervals, feedSources, timers, nextTimer, isActive, sw>>
  /\ UNCHANGED <<workerVars, storeVars, feedVars>>

\* the reading UI saves a feed with isActive switched
SetActive(feedId, active) ==
  /\ isActive[feedId] # active
  /\ isActive' = [isActive EXCEPT ![feedId] = active]
  /\ UNCHANGED <<updateIntervals, feedSources, timers, nextTimer, sw, obs>>
  /\ UNCHANGED <<workerVars, storeVars, feedVars>>

NextSWSched ==
  \/ SWInitialize
  \/ SWRefresh
  \/ \E f \in SchedFeeds : SWTimeoutFire(f)
  \/ \E t \in AllTimers : SWTimerTick(t)
  \/ \E f \in SchedFeeds, a \in BOOLEAN : SetActive(f, a)

SpecSWSched == InitWorker /\ [][NextSWSched]_vars

(***************************************************************************)
(* Properties of the schedulers.                                           *)
(***************************************************************************)
Registered(t) == t.feedId \in DOMAIN updateIntervals /\ updateIntervals[t.feedId] = t.id

\* a call of updateSingleFeed that has neither completed nor reported its final error
CallInFlight(c) == calls[c].pc \in {"fetching", "parsing", "filtering", "backoff"}

CallStep(c) ==
  \/ \E r \in {"ok"} \cup FetchErrors : FetchReturn(c, r)
  \/ \E r \in {"ok"} \cup ParseErrors : ParseReturn(c, r)
  \/ \E r \in {"ok"} \cup ConvertErrors : FilterReturn(c, r)
  \/ RetryFire(c)

\* C13: in the page worker at most one recurring timer is live for each feed id, it is the
\* one on record in updateIntervals, and a timer that was replaced or cancelled never ticks.
C13_OneTimerPerFeed ==
  /\ \A t, u \in timers : t.feedId = u.feedId => t = u
  /\ \A t \in timers : Registered(t)
  /\ \A t \in AllTimers : ~Registered(t) => ~ENABLED TimerTick(t)

\* the third timer installed is the only one live: the feed was scheduled again
C13_Witness ==
  /\ nextTimer = 4
  /\ timers = {[id |-> 3, feedId |-> "f1"]}
  /\ obs.cancelled = {}
  /\ ~obs.tornDown
  /\ obs.lastTick.feedId = "f1"

\* C14: a tick of a feed's recurring timer, in either actor, starts an update only if the
\* feed is active at the time of the tick.
C14_TickOnlyIfActive ==
  obs.lastTick.started => obs.lastTick.active

\* C15: a feed whose schedule was cancelled and not set again has no live timer and no
\* tick, and an update call in flight, also one of a cancelled feed, can still take the
\* step that leads it to its completion or final error.
C15_CancelStopsTicks ==
  /\ \A f \in obs.cancelled :
       /\ \A t \in timers : t.feedId # f
       /\ \A t \in AllTimers : t.feedId = f => ~ENABLED TimerTick(t)
  /\ \A c \in CallIds : CallInFlight(c) => ENABLED CallStep(c)

\* an update started by a tick of f1 is in flight after f1 was cancelled
C15_Witness ==
  /\ "f1" \in obs.cancelled
  /\ \E c \in CallIds :
       /\ calls[c].feedId = "f1"
       /\ calls[c].origin = "tick"
       /\ calls[c].pc = "parsing"

\* C16: from a teardown until the next command no timer, no retry counter and no cached
\* feed config is left, also when an update in flight at the teardown finishes.
C16_TeardownLeavesNothing ==
  obs.tornDown =>
    /\ timers = {}
    /\ updateIntervals = <<>>
    /\ feedSources = <<>>
    /\ retryAttempts = <<>>

(***************************************************************************)
(* Properties of the persist step (continued).                             *)
(***************************************************************************)
\* C17: with the gate available, the persist step of a cycle keeps for writing exactly
\* the incoming items whose guid no stored item of the feed has, in incoming order.
C17_PersistsExactlyNew ==
  [][\A c \in Cycles :
       (locksAvailable /\ Read(c)) =>
          cycles'[c].newItems =
            SelectSeq(cycles[c].items,
                      LAMBDA item : item.guid \notin Guids(StoredOf(cycles[c].feedId)))]_vars

\* C20: with the gate available, a write of an update cycle, of either actor, leaves
\* every record already stored as it is, whatever its pubDate: isRead, createdAt and the
\* other fields are kept.
C20_StoredItemsUnchanged ==
  [][(locksAvailable /\ \E c \in Cycles, o \in TxOutcomes : PageWrite(c, o) \/ SWWrite(c, o))
        => feedItems \subseteq feedItems']_vars

(***************************************************************************)
(* Part V: the conversion of the parsed entries to items (isHidden) and    *)
(* the completion event of a cycle (SpecIngest).                           *)
(***************************************************************************)
\* A string is the sequence of its characters.  A list of ignored words is the set
\* of its rules (some() ignores the order).
LowerOf == ("A" :> "a") @@ ("I" :> "i")
WordChars == {"a", "d", "i", "r", "s", "w"}

\* String.prototype.toLowerCase
ToLowerCase(str) ==
  [i \in DOMAIN str |-> IF str[i] \in DOMAIN LowerOf THEN LowerOf[str[i]] ELSE str[i]]

\* String.prototype.trim
RECURSIVE Trim(_)
Trim(str) ==
  IF str = <<>> THEN str
  ELSE IF Head(str) = " " THEN Trim(Tail(str))
  ELSE IF str[Len(str)] = " " THEN Trim(SubSeq(str, 1, Len(str) - 1))
  ELSE str

StartsWith(str, ch) == Len(str) > 0 /\ str[1] = ch
EndsWith(str, ch) == Len(str) > 0 /\ str[Len(str)] = ch

\* the occurrences of word in text: the positions of their first character
Occurrences(text, word) ==
  { i \in 1..(Len(text) - Len(word) + 1) : SubSeq(text, i, i + Len(word) - 1) = word }

\* String.prototype.includes (the empty string is included in every string)
TextIncludes(text, word) == word = <<>> \/ Occurrences(text, word) # {}

\* the regular expression \b between the characters p and p + 1 of text
IsWordAt(text, p) == p \in 1..Len(text) /\ text[p] \in WordChars
Boundary(text, p) == IsWordAt(text, p) # IsWordAt(text, p + 1)

\* new RegExp('\\b' + escaped word + '\\b').test(text)
WordBoundaryTest(text, word) ==
  \E i \in Occurrences(text, word) :
    Boundary(text, i - 1) /\ Boundary(text, i + Len(word) - 1)

\* the callback of ignoredWords.some in shouldHideContent
RuleMatches(textToCheck, word) ==
  LET lowerWord == Trim(ToLowerCase(word))
  IN  IF lowerWord = <<>> THEN FALSE
      ELSE IF StartsWith(lowerWord, "*") /\ EndsWith(lowerWord, "*")
      THEN TextIncludes(textToCheck, SubSeq(lowerWord, 2, Len(lowerWord) - 1))
      ELSE IF StartsWith(lowerWord, "*")
      THEN TextIncludes(textToCheck, SubSeq(lowerWord, 2, Len(lowerWord)))
      ELSE IF EndsWith(lowerWord, "*")
      THEN TextIncludes(textToCheck, SubSeq(lowerWord, 1, Len(lowerWord) - 1))
      ELSE WordBoundaryTest(textToCheck, lowerWord)

\* shouldHideContent(article, ignoredWords); text: the string fields of the article
\* joined by spaces
ShouldHideContent(text, ignoredWords) ==
  IF ignoredWords = {} THEN FALSE
  ELSE \E word \in ignoredWords : RuleMatches(ToLowerCase(text), word)

\* combineIgnoredWords(feedIgnoredWords, globalIgnoredWords)
CombineIgnoredWords(feedIgnoredWords, globalIgnoredWords) ==
  { Trim(ToLowerCase(word)) : word \in feedIgnoredWords \cup globalIgnoredWords } \ {<<>>}

\* the texts and the ignored-word lists of the fetched feeds
Vocabulary == { <<"a", "d">>, <<"w", "a", "r">> }
Texts ==
  { <<>>, <<"a", "d">>, <<"w", "a", "r">>, <<"a", "d", " ", "w", "a", "r">> }
WordLists == SUBSET Vocabulary

\* the feed config the actor has at hand: RSSWorker's feedSources.get(feedId), which
\* may be missing, or the feed object RSSServiceWorker.updateFeed was given
NoSource == [known |-> FALSE, ignoredWords |-> {}]
Sources == {NoSource} \cup { [known |-> TRUE, ignoredWords |-> w] : w \in WordLists }

\* feedSource?.ignoredWords || []   /   feed.ignoredWords || []
IgnoredWordsOf(source) == IF source.known THEN source.ignoredWords ELSE {}

ParsedEntries == [guid : {"a", "b"}, text : Texts]

\* the items of one fetch, as far as the flags and the event go
ConvertedItems(entries, source) ==
  [i \in DOMAIN entries |->
     [guid |-> entries[i].guid, text |-> entries[i].text,
      isHidden |-> ShouldHideContent(entries[i].text, IgnoredWordsOf(source))]]

CountHidden(items) == Cardinality({ i \in DOMAIN items : items[i].isHidden })

\* the payload of UPDATE_COMPLETE as 'rss-worker-complete' passes it on
CompleteEvent(items, existingGuids) ==
  [newItems |-> Len(FilterNew(items, existingGuids)),
   totalItems |-> Len(items),
   hiddenItems |-> CountHidden(items)]

\* updateSingleFeed / parseRSSFeed convert the entries of a fetch; globalWords is
\* settings.globalIgnoredWords at that time
IngestItems(actor, entries, source, globalWords) ==
  /\ obs.ingested.pc = "idle"
  /\ actor = "sw" => source.known
  /\ obs' = [obs EXCEPT !.ingested =
        [pc |-> "converted", actor |-> actor, items |-> ConvertedItems(entries, source),
         feedWords |-> IgnoredWordsOf(source), globalWords |-> globalWords,
         existing |-> {}, event |-> <<>>]]
  /\ UNCHANGED <<updateIntervals, feedSources, timers, nextTimer, isActive, sw>>
  /\ UNCHANGED <<workerVars, storeVars, feedVars>>

\* the page cycle posts UPDATE_COMPLETE and saveFeedItems emits 'rss-worker-complete';
\* existingGuids: the guids saveFeedItems finds stored
PostComplete(existingGuids) ==
  /\ obs.ingested.pc = "converted"
  /\ obs.ingested.actor = "page"
  /\ obs' = [obs EXCEPT !.ingested.pc = "posted",
                        !.ingested.event = CompleteEvent(obs.ingested.items, existingGuids),
                        !.ingested.existing = existingGuids]
  /\ UNCHANGED <<updateIntervals, feedSources, timers, nextTimer, isActive, sw>>
  /\ UNCHANGED <<workerVars, storeVars, feedVars>>

NextIngest ==
  \/ \E actor \in {"page", "sw"}, entries \in SeqsUpTo(ParsedEntries, MaxItems),
        source \in Sources, globalWords \in WordLists :
       IngestItems(actor, entries, source, globalWords)
  \/ \E existingGuids \in SUBSET {"a", "b"} : PostComplete(existingGuids)

SpecIngest == InitWorker /\ [][NextIngest]_vars

\* C18: the completion event reports totalItems = the number of items of the fetch and
\* hiddenItems = the number of hidden items among those newly persisted.
C18_EventCounts ==
  obs.ingested.pc = "posted" =>
    /\ obs.ingested.event.totalItems = Len(obs.ingested.items)
    /\ obs.ingested.event.hiddenItems =
         CountHidden(FilterNew(obs.ingested.items, obs.ingested.existing))

\* C19: the isHidden flag of an ingested item, in either actor, is the one the union of
\* the feed's rules and the global rules gives.
C19_HiddenByUnionOfRules ==
  obs.ingested.pc # "idle" =>
    \A i \in DOMAIN obs.ingested.items :
      obs.ingested.items[i].isHidden =
        ShouldHideContent(obs.ingested.items[i].text,
                          CombineIgnoredWords(obs.ingested.feedWords, obs.ingested.globalWords))

(***************************************************************************)
(* Part VI: the records of object store 'feedSources' (SpecFeedStore): the *)
(* lastUpdated write of an update cycle and DatabaseService.updateFeed,    *)
(* the edit the feed form saves.                                           *)
(***************************************************************************)
MaxStamps == 2

\* the record of a feed as a get on 'feedSources' returns it
FeedRecord(f) ==
  [title |-> feedConfig[f].title, updateInterval |-> feedConfig[f].updateInterval,
   isActive |-> isActive[f], lastUpdated |-> lastUpdated[f]]

\* { ...existing, ...updates }
Merge(existing, updates) ==
  [k \in DOMAIN existing |-> IF k \in DOMAIN updates THEN updates[k] ELSE existing[k]]

\* the updates of an edit: Partial<FeedSource>
Edits ==
  { [title |-> "t1"],
    [isActive |-> FALSE],
    [title |-> "t1", updateInterval |-> NoInterval] }

\* put on 'feedSources': the whole record is replaced
PutFeed(f, rec) ==
  /\ feedConfig' = [feedConfig EXCEPT ![f] =
                      [title |-> rec.title, updateInterval |-> rec.updateInterval]]
  /\ isActive' = [isActive EXCEPT ![f] = rec.isActive]
  /\ lastUpdated' = [lastUpdated EXCEPT ![f] = rec.lastUpdated]
  /\ storedFeeds' = storedFeeds \cup {f}

\* DatabaseService.updateFeedLastUpdated(feedId): db.get, a transaction of its own
StampGet(f) ==
  /\ feedTx.stamp.pc = "idle"
  /\ feedTx.stamp.puts < MaxStamps
  /\ feedTx' = [feedTx EXCEPT !.stamp.pc = "got", !.stamp.feedId = f,
                              !.stamp.existing = FeedRecord(f)]
  /\ UNCHANGED <<feedConfig, isActive, lastUpdated, storedFeeds>>
  /\ UNCHANGED <<feedItems, now, nextId, locksAvailable, gate, pubDateOf, cycles>>
  /\ UNCHANGED <<updateIntervals, feedSources, timers, nextTimer, sw, obs>>
  /\ UNCHANGED workerVars

\* DatabaseService.updateFeedLastUpdated(feedId), the continuation of the get:
\* feed.lastUpdated = new Date(), and the put is requested
StampDate ==
  /\ feedTx.stamp.pc = "got"
  /\ feedTx' = [feedTx EXCEPT !.stamp.pc = "dated", !.stamp.updates = [lastUpdated |-> now]]
  /\ UNCHANGED <<feedConfig, isActive, lastUpdated, storedFeeds>>
  /\ UNCHANGED <<feedItems, now, nextId, locksAvailable, gate, pubDateOf, cycles>>
  /\ UNCHANGED <<updateIntervals, feedSources, timers, nextTimer, sw, obs>>
  /\ UNCHANGED workerVars

\* DatabaseService.updateFeedLastUpdated(feedId): the transaction of db.put
StampPut ==
  /\ feedTx.stamp.pc = "dated"
  /\ PutFeed(feedTx.stamp.feedId, Merge(feedTx.stamp.existing, feedTx.stamp.updates))
  /\ feedTx' = [feedTx EXCEPT !.stamp.pc = "idle", !.stamp.puts = @ + 1,
                              !.stamp.updates = <<>>]
  /\ UNCHANGED <<feedItems, now, nextId, locksAvailable, gate, pubDateOf, cycles>>
  /\ UNCHANGED <<updateIntervals, feedSources, timers, nextTimer, sw, obs>>
  /\ UNCHANGED workerVars

\* RSSServiceWorker.updateFeedTimestamp(feedId): get and put in one readwrite transaction
UpdateFeedTimestamp(f) ==
  /\ lastUpdated[f] # now
  /\ PutFeed(f, [FeedRecord(f) EXCEPT !.lastUpdated = now])
  /\ UNCHANGED feedTx
  /\ UNCHANGED <<feedItems, now, nextId, locksAvailable, gate, pubDateOf, cycles>>
  /\ UNCHANGED <<updateIntervals, feedSources, timers, nextTimer, sw, obs>>
  /\ UNCHANGED workerVars

\* DatabaseService.updateFeed(id, updates): db.get, a transaction of its own
EditGet(f, updates) ==
  /\ feedTx.edit.pc = "idle"
  /\ feedTx' = [feedTx EXCEPT !.edit.pc = "got", !.edit.feedId = f,
                              !.edit.existing = FeedRecord(f), !.edit.updates = updates]
  /\ UNCHANGED <<feedConfig, isActive, lastUpdated, storedFeeds>>
  /\ UNCHANGED <<feedItems, now, nextId, locksAvailable, gate, pubDateOf, cycles>>
  /\ UNCHANGED <<updateIntervals, feedSources, timers, nextTimer, sw, obs>>
  /\ UNCHANGED workerVars

\* DatabaseService.updateFeed(id, updates): db.put of { ...existing, ...updates }
EditPut ==
  /\ feedTx.edit.pc = "got"
  /\ PutFeed(feedTx.edit.feedId, Merge(feedTx.edit.existing, feedTx.edit.updates))
  /\ feedTx' = [feedTx EXCEPT !.edit.pc = "done", !.edit.puts = @ + 1]
  /\ UNCHANGED <<feedItems, now, nextId, locksAvailable, gate, pubDateOf, cycles>>
  /\ UNCHANGED <<updateIntervals, feedSources, timers, nextTimer, sw, obs>>
  /\ UNCHANGED workerVars

NextFeedStore ==
  \/ \E f \in FeedIds : StampGet(f)
  \/ StampDate
  \/ StampPut
  \/ \E f \in FeedIds : UpdateFeedTimestamp(f)
  \/ \E f \in FeedIds, updates \in Edits : EditGet(f, updates)
  \/ EditPut
  \/ Tick

SpecFeedStore == InitWorker /\ [][NextFeedStore]_vars

\* C21: once an edit of a feed has been saved and no lastUpdated write of a cycle is
\* under way, every field the edit wrote holds the value the edit wrote.
C21_EditSurvivesStamp ==
  (feedTx.edit.pc = "done" /\ feedTx.stamp.pc = "idle") =>
    \A k \in DOMAIN feedTx.edit.updates :
      FeedRecord(feedTx.edit.feedId)[k] = feedTx.edit.updates[k]

(***************************************************************************)
(* Properties of RSSWorker.updateSingleFeed (continued).                   *)
(***************************************************************************)
\* every fetch, parse and conversion settles and every retry timer fires
SpecRetryFair == SpecRetry /\ \A c \in CallIds : WF_vars(CallStep(c))

\* UPDATE_COMPLETE and UPDATE_ERROR messages a call has posted
TerminalEvents(c) == calls[c].completes + calls[c].errors

\* C22: every UPDATE_FEED command ends with exactly one terminal event: its call posts
\* at most one of UPDATE_COMPLETE and UPDATE_ERROR, posts it when it stops, stays as it
\* is afterwards, and every call eventually stops, whatever stage fails.
C22_OneTerminalEvent ==
  /\ [](\A c \in CmdCalls :
          /\ TerminalEvents(c) <= 1
          /\ (TerminalEvents(c) = 1) <=> (calls[c].pc \in {"complete", "failed"})
          /\ calls[c].pc = "complete" => calls[c].completes = 1
          /\ calls[c].pc = "failed" => calls[c].errors = 1)
  /\ [][\A c \in CmdCalls : calls[c].pc \in {"complete", "failed"} => calls'[c] = calls[c]]_vars
  /\ \A c \in CallIds :
       (calls[c].origin = "cmd") ~>
          (calls[c].pc \in {"complete", "failed"} /\ TerminalEvents(c) = 1)

\* one call has completed after two retries, another has reported the final error of
\* a failed conversion
C22_Witness ==
  \E c, d \in CmdCalls :
    /\ calls[c].pc = "complete" /\ calls[c].retryCount = 2 /\ TerminalEvents(c) = 1
    /\ calls[d].pc = "failed" /\ calls[d].lastError = "ConvertError"

(***************************************************************************)
(* Properties of the persist step: failures and the missing gate.          *)
(***************************************************************************)
\* what the UI takes for the end of a successful cycle, and for its failure
CompletionEvents == {"UPDATE_COMPLETE", "rss-worker-complete", "FEED_UPDATED"}
ErrorEvents == {"UPDATE_ERROR", "FEED_UPDATE_ERROR"}

\* C23: a cycle whose write of new items failed has delivered an error event and no
\* completion event, and takes no further step (the write is not tried again).
C23_WriteFailureSurfaced ==
  \A c \in Cycles :
    (cycles[c].pc = "failed" /\ cycles[c].error = "StorageError") =>
      /\ cycles[c].events \cap ErrorEvents # {}
      /\ cycles[c].events \cap CompletionEvents = {}
      /\ ~ENABLED CycleStep(c)

\* no other cycle of the same feed ran while cycle c did
Alone(c) ==
  /\ ~cycles[c].concurrent
  /\ \A d \in Cycles :
       (d # c /\ cycles[d].feedId = cycles[c].feedId) => ~cycles[d].concurrent

\* the cycle has requested the gate of its feed while another cycle holds it
WaitsForGate(c) ==
  locksAvailable /\ cycles[c].pc = "request" /\ gate[cycles[c].feedId] # 0

\* what a persist step comes to, with the gate or without it: it can always take its
\* next step (unless it waits for the gate or its transaction was aborted), only a
\* failed transaction makes it fail, and a cycle that ran alone on its feed and is done has every fetched guid
\* stored, every new item written and lastUpdated set
PersistOutcome ==
  \A c \in Cycles :
    /\ (InFlight(c) /\ cycles[c].pc # "pending" /\ ~WaitsForGate(c)) => ENABLED CycleStep(c)
    /\ cycles[c].pc = "failed" => cycles[c].error = "StorageError"
    /\ cycles[c].events \cap ErrorEvents # {} => cycles[c].error = "StorageError"
    /\ (cycles[c].pc = "done" /\ Alone(c)) =>
         /\ Guids(Range(cycles[c].items)) \subseteq Guids(StoredOf(cycles[c].feedId))
         /\ \A i \in DOMAIN cycles[c].newItems :
              \E x \in StoredOf(cycles[c].feedId) :
                /\ x.guid = cycles[c].newItems[i].guid
                /\ x.pubDate = cycles[c].newItems[i].pubDate
         /\ lastUpdated[cycles[c].feedId] \in 1..now

\* C24: without the Web Locks API no gate is ever held, and a persist step comes to the
\* same as with it: read, dedup, write and lastUpdated, and no error from the missing gate.
C24_UnguardedPersist ==
  /\ ~locksAvailable => \A f \in FeedIds : gate[f] = 0
  /\ PersistOutcome

\* without the gate, a page cycle and a service worker cycle have each stored a new item
C24_Witness ==
  /\ ~locksAvailable
  /\ \E c, d \in Cycles :
       /\ cycles[c].actor = "page" /\ cycles[d].actor = "sw"
       /\ cycles[c].pc = "done" /\ cycles[d].pc = "done"
       /\ Alone(c) /\ Alone(d)
       /\ Len(cycles[c].newItems) > 0 /\ Len(cycles[d].newItems) > 0

(***************************************************************************)
(* Part VII: the content filter on its own (SpecFilter): shouldHideContent *)
(* of ignoredWords.ts and of RSSServiceWorker, which match the same way.   *)
(***************************************************************************)
MaxWords == 2
MaxRules == 1

\* the words of the texts: the word of the rules alone, with a capital, inside a longer
\* word, at its start, at its end, before a full stop
TextWords ==
  { <<"a", "i">>, <<"A", "I">>, <<"s", "a", "i", "d">>, <<"a", "i", "d">>,
    <<"s", "a", "i">>, <<"a", "i", ".">> }

RECURSIVE JoinWords(_)
JoinWords(words) ==
  IF words = <<>> THEN <<>>
  ELSE IF Len(words) = 1 THEN words[1]
  ELSE words[1] \o <<" ">> \o JoinWords(Tail(words))

FilterTexts == { JoinWords(ws) : ws \in {<<>>} \cup SeqsUpTo(TextWords, MaxWords) }

\* the rules: a word in each of the four forms
RuleWords == { <<"a", "i">>, <<"A", "i">> }
RuleForms == {"word", "word*", "*word", "*word*"}

MakeRule(word, form) ==
  (IF form \in {"*word", "*word*"} THEN <<"*">> ELSE <<>>)
    \o word \o
  (IF form \in {"word*", "*word*"} THEN <<"*">> ELSE <<>>)

FilterRules == { MakeRule(w, f) : w \in RuleWords, f \in RuleForms }
FilterLists == { l \in SUBSET FilterRules : Cardinality(l) <= MaxRules }

\* shouldHideContent(article, ignoredWords) is called
ApplyFilter(text, ignoredWords) ==
  /\ obs.filtered.pc = "idle"
  /\ obs' = [obs EXCEPT !.filtered =
        [pc |-> "done", text |-> text, ignoredWords |-> ignoredWords,
         hidden |-> ShouldHideContent(text, ignoredWords)]]
  /\ UNCHANGED <<updateIntervals, feedSources, timers, nextTimer, isActive, sw>>
  /\ UNCHANGED <<workerVars, storeVars, feedVars>>

\* the next article is filtered
FilterAgain ==
  /\ obs.filtered.pc = "done"
  /\ obs' = [obs EXCEPT !.filtered = NotFiltered]
  /\ UNCHANGED <<updateIntervals, feedSources, timers, nextTimer, isActive, sw>>
  /\ UNCHANGED <<workerVars, storeVars, feedVars>>

NextFilter ==
  \/ \E text \in FilterTexts, ignoredWords \in FilterLists : ApplyFilter(text, ignoredWords)
  \/ FilterAgain

SpecFilter == InitWorker /\ [][NextFilter]_vars

\* the form of a rule and its word
FormOf(rule) ==
  IF StartsWith(rule, "*") /\ EndsWith(rule, "*") THEN "*word*"
  ELSE IF StartsWith(rule, "*") THEN "*word"
  ELSE IF EndsWith(rule, "*") THEN "word*"
  ELSE "word"

WordOf(rule) ==
  SubSeq(rule, IF StartsWith(rule, "*") THEN 2 ELSE 1,
               IF EndsWith(rule, "*") THEN Len(rule) - 1 ELSE Len(rule))

\* the match of a rule in its own mode: anywhere, where a word starts, where a word
\* ends, or as a whole word
MatchesInMode(text, rule) ==
  LET lowerText == ToLowerCase(text)
      word == ToLowerCase(WordOf(rule))
      form == FormOf(rule)
  IN  \E i \in Occurrences(lowerText, word) :
        /\ form \in {"word", "word*"} => ~IsWordAt(lowerText, i - 1)
        /\ form \in {"word", "*word"} => ~IsWordAt(lowerText, i + Len(word))

\* C25: the filter returns false for the empty rule set and otherwise hides a text
\* exactly when one of the rules matches it in its own mode.
C25_MatchingModes ==
  obs.filtered.pc = "done" =>
    obs.filtered.hidden =
      (\E rule \in obs.filtered.ignoredWords : MatchesInMode(obs.filtered.text, rule))

(***************************************************************************)
(* Part VIII: a whole update cycle of each actor (SpecUpdate):             *)
(* RSSServiceWorker.updateFeed from its fetch to its persist step, and the *)
(* page path from the UPDATE_FEED command over UPDATE_COMPLETE to          *)
(* WorkerManager.handleUpdateComplete.                                     *)
(***************************************************************************)
\* the feeds of these cycles publish the entry with guid a
UpdateContents == { content \in GateContents : content[1].guid = "a" }

\* fetch rejects, or the response is not ok (the service worker sets no timeout)
SWFetchErrors == {"NetworkError", "HttpError"}

\* what the proxy returned with status 200: a feed, markup that is not well-formed XML,
\* or a document that is no feed
Bodies == {"feed", "unparsable", "nonfeed"}

\* handleMessage, UPDATE_FEED_NOW, or a timer: updateFeed(feed) up to its fetch
SWUpdateFeed(c, feedId) ==
  /\ cycles[c].pc = "idle"
  /\ \A d \in Cycles : d < c => cycles[d].pc # "idle"
  /\ cycles' = [cycles EXCEPT ![c] =
        [IdleCycle EXCEPT !.actor = "sw", !.feedId = feedId, !.pc = "fetching",
                          !.attempts = 1]]
  /\ UNCHANGED <<feedItems, lastUpdated, now, nextId, locksAvailable, gate, pubDateOf>>
  /\ UNCHANGED <<workerVars, schedVars, feedVars>>

\* updateFeed: the fetch settles; a failure goes to the catch block: FEED_UPDATE_ERROR
SWFetchReturn(c, result) ==
  /\ cycles[c].pc = "fetching"
  /\ IF result = "ok"
     THEN cycles' = [cycles EXCEPT ![c].pc = "parsing"]
     ELSE /\ result \in SWFetchErrors
          /\ cycles' = [cycles EXCEPT ![c].pc = "failed", ![c].error = result,
                                      ![c].events = @ \cup {"FEED_UPDATE_ERROR"}]
  /\ UNCHANGED <<feedItems, lastUpdated, now, nextId, locksAvailable, gate, pubDateOf>>
  /\ UNCHANGED <<workerVars, schedVars, feedVars>>

\* updateFeed: parseRSSFeed returns the items of the item and entry elements it finds,
\* none when the document has none or when it caught an error; saveNewFeedItems
\* returns at once when there are no items
SWParseReturn(c, body, content) ==
  /\ cycles[c].pc = "parsing"
  /\ LET parsed == IF body = "feed" THEN content ELSE <<>>
         new == NewCycle("sw", cycles[c].feedId, parsed, 0)
     IN  /\ cycles' = [cycles EXCEPT ![c] = [new EXCEPT !.body = body]]
         /\ nextId' = nextId + Len(parsed)
  /\ UNCHANGED <<feedItems, lastUpdated, now, locksAvailable, gate, pubDateOf>>
  /\ UNCHANGED <<workerVars, schedVars, feedVars>>

\* WorkerManager.handleWorkerMessage, UPDATE_COMPLETE of call k: handleUpdateComplete
HandleUpdateComplete(k, c, content) ==
  /\ calls[k].pc = "complete"
  /\ \A d \in Cycles : cycles[d].call # k
  /\ cycles[c].pc = "idle"
  /\ \A d \in Cycles : d < c => cycles[d].pc # "idle"
  /\ cycles' = [cycles EXCEPT ![c] = NewCycle("page", calls[k].feedId, content, k)]
  /\ UNCHANGED <<feedItems, lastUpdated, now, nextId, locksAvailable, gate, pubDateOf>>
  /\ UNCHANGED <<workerVars, schedVars, feedVars>>

NextUpdate ==
  \/ \E c \in Cycles, f \in FeedIds : SWUpdateFeed(c, f)
  \/ \E c \in Cycles, r \in {"ok"} \cup SWFetchErrors : SWFetchReturn(c, r)
  \/ \E c \in Cycles, body \in Bodies, content \in UpdateContents :
       SWParseReturn(c, body, content)
  \/ \E f \in FeedIds : UpdateFeedCmd(1, f)
  \/ \E k \in CallIds, r \in {"ok"} \cup FetchErrors : FetchReturn(k, r)
  \/ \E k \in CallIds, r \in {"ok"} \cup ParseErrors : ParseReturn(k, r)
  \/ \E k \in CallIds, r \in {"ok"} \cup ConvertErrors : FilterReturn(k, r)
  \/ \E k \in CallIds : RetryFire(k)
  \/ \E k \in CallIds, c \in Cycles, content \in UpdateContents :
       HandleUpdateComplete(k, c, content)
  \/ \E c \in Cycles : Request(c)
  \/ \E c \in Cycles : Read(c)
  \/ \E c \in Cycles, o \in TxOutcomes : PageWrite(c, o)
  \/ \E c \in Cycles, o \in TxOutcomes : SWWrite(c, o)
  \/ \E c \in Cycles : Stamp(c)

SpecUpdate == InitWorker /\ [][NextUpdate]_vars

\* the cycle has fetched a feed and parsed it
FetchedAndParsed(c) == cycles[c].body = "feed"

\* C26: a cycle that failed in its fetch or its parse has no item to write, and
\* lastUpdated of a feed is changed only by the last step of a cycle of that feed that
\* fetched and parsed a feed, after the write of its new items.
C26_FailedCycleLeavesNoTrace ==
  /\ [](\A c \in Cycles :
          (cycles[c].pc # "idle" /\ ~FetchedAndParsed(c)) => cycles[c].items = <<>>)
  /\ [][\A f \in FeedIds :
          lastUpdated'[f] # lastUpdated[f] =>
            \E c \in Cycles :
              /\ cycles[c].feedId = f
              /\ FetchedAndParsed(c)
              /\ cycles[c].pc = "stamp" /\ cycles'[c].pc = "done"
              /\ \A i \in DOMAIN cycles[c].newItems :
                   cycles[c].newItems[i].guid \in Guids(StoredOf(f))]_vars

\* C29: a cycle of the service worker reports a final error for a transient failure
\* only after 3 retries, that is 4 attempts.
C29_ServiceWorkerRetries ==
  \A c \in Cycles :
    ( /\ cycles[c].actor = "sw"
      /\ cycles[c].pc = "failed"
      /\ cycles[c].error \in TransientErrors )
    => cycles[c].attempts = MAX_RETRY_ATTEMPTS + 1

(***************************************************************************)
(* The retry counters of the page worker (SpecCounter): the UPDATE_FEED    *)
(* commands of SpecRetry and the teardown.                                 *)
(***************************************************************************)
NextCounter ==
  \/ NextRetry
  \/ CleanupCmd

SpecCounter == InitWorker /\ [][NextCounter]_vars

\* this step an update of the feed completes
Succeeds(feedId) ==
  \E c \in CallIds :
    /\ calls[c].feedId = feedId
    /\ calls[c].pc = "filtering" /\ calls'[c].pc = "complete"

\* this step call c reports its final error
ReportsFinalError(c) == calls[c].pc # "failed" /\ calls'[c].pc = "failed"

\* C27 as stated: a successful update leaves no counter for its feed, and a non-zero
\* counter keeps its value in every step that is not a successful update of its feed.
C27_CounterKeptUntilSuccess ==
  [][\A f \in WorkerFeedIds :
       /\ Succeeds(f) => f \notin DOMAIN retryAttempts'
       /\ (f \in DOMAIN retryAttempts /\ retryAttempts[f] > 0 /\ ~Succeeds(f)) =>
            (f \in DOMAIN retryAttempts' /\ retryAttempts'[f] = retryAttempts[f])]_vars

\* C27 as amended: a successful update leaves no counter for its feed; a counter is
\* removed only by a successful update of its feed or by a teardown; it is set only by
\* a final error of its feed, to the retry count of that cycle, which is 3 when the
\* retries are exhausted.
C27_CounterClearedBySuccessOrTeardown ==
  [][\A f \in WorkerFeedIds :
       /\ Succeeds(f) => f \notin DOMAIN retryAttempts'
       /\ (f \in DOMAIN retryAttempts /\ f \notin DOMAIN retryAttempts') =>
            (Succeeds(f) \/ CleanupCmd)
       /\ ( /\ f \in DOMAIN retryAttempts'
            /\ f \in DOMAIN retryAttempts => retryAttempts'[f] # retryAttempts[f] ) =>
            \E c \in CallIds :
              /\ calls[c].feedId = f
              /\ ReportsFinalError(c)
              /\ retryAttempts'[f] = calls[c].retryCount
       /\ \A c \in CallIds :
            ( /\ calls[c].feedId = f
              /\ ReportsFinalError(c)
              /\ calls[c].retryCount = MAX_RETRY_ATTEMPTS ) =>
            (f \in DOMAIN retryAttempts' /\ retryAttempts'[f] = MAX_RETRY_ATTEMPTS)]_vars

\* after one update of f1 exhausted its retries, another failed in its parse at the
\* first attempt: the counter of f1 is 0
C27_Witness ==
  /\ "f1" \in DOMAIN retryAttempts
  /\ retryAttempts["f1"] = 0
  /\ \E c, d \in CmdCalls :
       /\ calls[c].feedId = "f1" /\ calls[d].feedId = "f1"
       /\ calls[c].pc = "failed" /\ calls[c].retryCount = MAX_RETRY_ATTEMPTS
       /\ calls[d].pc = "failed" /\ calls[d].retryCount = 0

\* the delays of the retries after the failed attempts 0, 1 and 2, in milliseconds
BackoffTable == <<5000, 10000, 20000>>

\* C28: a call that waits for its retry after failed attempt k has set one timer for
\* each failed attempt so far, the last one with delay 5000 * 2^k ms, and has posted
\* the status "Retrying in <delay in s>s... (<k + 1>/3)"; the retry is then due.
C28_BackoffSchedule ==
  \A c \in CallIds :
    /\ calls[c].scheduled = calls[c].retryCount + (IF calls[c].pc = "backoff" THEN 1 ELSE 0)
    /\ calls[c].pc = "backoff" =>
         LET k == calls[c].retryCount
         IN  /\ k \in 0..2
             /\ calls[c].delay = BackoffTable[k + 1]
             /\ calls[c].status =
                  <<"Retrying in ", BackoffTable[k + 1] \div 1000, "s... (", k + 1, "/", 3, ")">>
             /\ ENABLED RetryFire(c)

\* the third retry is scheduled, 20 s after the third failed attempt
C28_Witness ==
  \E c \in CmdCalls :
    /\ calls[c].pc = "backoff"
    /\ calls[c].retryCount = 2
    /\ calls[c].delay = 20000
    /\ calls[c].scheduled = 3

(***************************************************************************)
(* Part IX: building the schedules from the stored feeds.                  *)
(* WorkerManager.scheduleAllFeeds and RSSServiceWorker.setupBackgroundSync *)
(* over feeds whose updateInterval the feed form sets or leaves undefined  *)
(* (SpecSchedule).                                                         *)
(***************************************************************************)
\* the values of FeedSource.updateInterval, in minutes
Intervals == {NoInterval, 30}

\* FeedForm, handleSubmit: the feed is saved with updateInterval changed
SetUpdateInterval(feedId, interval) ==
  /\ feedConfig[feedId].updateInterval # interval
  /\ feedTx = IdleTx
  /\ feedConfig' = [feedConfig EXCEPT ![feedId].updateInterval = interval]
  /\ UNCHANGED <<feedTx, storedFeeds>>
  /\ UNCHANGED <<workerVars, storeVars, schedVars>>

\* RSSWorker.scheduleUpdate(feedId, interval) on the scheduler state st of the page worker
ScheduleUpdate(st, feedId) ==
  LET kept == IF feedId \in DOMAIN st.updateIntervals
              THEN { t \in st.timers : t.id # st.updateIntervals[feedId] }
              ELSE st.timers
  IN  [timers |-> kept \cup {[id |-> st.nextTimer, feedId |-> feedId]},
       updateIntervals |-> MapPut(st.updateIntervals, feedId, st.nextTimer),
       nextTimer |-> st.nextTimer + 1]

\* the loop of scheduleAllFeeds: SCHEDULE_UPDATE for each feed that passes the test
RECURSIVE ScheduleFrom(_, _)
ScheduleFrom(st, i) ==
  IF i > Cardinality(SchedFeeds) THEN st
  ELSE ScheduleFrom(IF HasSchedule(AllFeeds[i]) THEN ScheduleUpdate(st, AllFeeds[i]) ELSE st, i + 1)

\* WorkerManager.scheduleAllFeeds, up to the sync with the service worker (SWRefresh)
ScheduleAllFeeds ==
  LET st == ScheduleFrom([timers |-> timers, updateIntervals |-> updateIntervals,
                          nextTimer |-> nextTimer], 1)
  IN  /\ st.nextTimer <= MaxTimers + 1
      /\ timers' = st.timers
      /\ updateIntervals' = st.updateIntervals
      /\ nextTimer' = st.nextTimer
      /\ obs' = [obs EXCEPT !.cancelled = @ \ { f \in SchedFeeds : HasSchedule(f) },
                            !.tornDown = FALSE]
      /\ UNCHANGED <<feedSources, isActive, sw>>
      /\ UNCHANGED <<workerVars, storeVars, feedVars>>

NextSchedule ==
  \/ ScheduleAllFeeds
  \/ \E f \in SchedFeeds, i \in Intervals : SetUpdateInterval(f, i)
  \/ \E f \in SchedFeeds, a \in BOOLEAN : SetActive(f, a)
  \/ SWInitialize
  \/ SWRefresh
  \/ \E f \in SchedFeeds : SWTimeoutFire(f)

SpecSchedule == InitWorker /\ [][NextSchedule]_vars

\* the page worker holds a recurring timer for the feed
HasPageTimer(feedId) ==
  /\ feedId \in DOMAIN updateIntervals
  /\ \E t \in timers : t.id = updateIntervals[feedId] /\ t.feedId = feedId

\* C30: when a scheduler has built its schedules from the stored feeds, every active
\* feed is scheduled, whether it has an updateInterval of its own or none: the page
\* worker holds a recurring timer for it, and the service worker has set the timeout
\* that starts its recurring timer.
C30_ActiveFeedsScheduled ==
  [][ /\ ScheduleAllFeeds =>
           \A f \in SchedFeeds : isActive[f] => HasPageTimer(f)'
      /\ (SWInitialize \/ SWRefresh) =>
           \A f \in SchedFeeds : isActive[f] => sw'.pending[f] = sw.pending[f] + 1
    ]_vars

(***************************************************************************)
(* Properties of the schedulers (continued).                               *)
(***************************************************************************)
\* C31: in the service worker at most one recurring timer is live for each feed id, and
\* every live timer is the one on record in updateIntervals, whatever refreshes and
\* timeouts of first updates came before.
C31_SWOneTimerPerFeed ==
  /\ \A t, u \in sw.timers : t.feedId = u.feedId => t = u
  /\ \A t \in sw.timers :
       /\ t.feedId \in DOMAIN sw.updateIntervals
       /\ sw.updateIntervals[t.feedId] = t.id

\* C32: when SET_FEED_SOURCES with the feeds S has been handled, the page worker's
\* cached feed configs are exactly those of S, so that a feed absent from S is no longer
\* known and its ticks start no update.
C32_SourcesReplaced ==
  [][\A feeds \in SourceLists :
       SetFeedSourcesCmd(feeds) =>
         /\ feedSources' = feeds
         /\ \A f \in SchedFeeds \ DOMAIN feeds : f \notin DOMAIN feedSources']_vars

(***************************************************************************)
(* Properties of RSSWorker: teardown and bulk updates against the retries.  *)
(***************************************************************************)
\* C33: the teardown of the page worker leaves no retry pending: no call waits in its
\* backoff with the timer of its retry still set, so that no retry fires, and with it no
\* fetch starts and no event is posted, after CLEANUP_COMPLETE.
C33_TeardownCancelsRetries ==
  [][CleanupCmd => \A c \in CallIds : ~(calls'[c].pc = "backoff" /\ calls'[c].scheduled > 0)]_vars

\* C34: once FEEDS_UPDATED of a bulk update is posted, the call of every feed of the bulk
\* update has posted its UPDATE_COMPLETE or its final UPDATE_ERROR: none is fetching,
\* parsing or waiting for a retry.
C34_SummaryAfterTerminalEvents ==
  bulk.pc = "done" =>
    \A i \in 1..Len(bulk.active) :
      /\ calls[i].pc \in {"complete", "failed"}
      /\ calls[i].completes + calls[i].errors = 1

(***************************************************************************)
(* Part X: the deletion of a feed against the update cycles of the feed     *)
(* (SpecDelete): DatabaseService.deleteFeed and the persist step of Part I. *)
(***************************************************************************)
\* DatabaseService.deleteFeed(id): the record of the feed and every item of index
\* 'by-feedId' with its id, in one readwrite transaction on both object stores
DeleteFeed(f) ==
  /\ f \in storedFeeds
  /\ storedFeeds' = storedFeeds \ {f}
  /\ feedItems' = { item \in feedItems : item.feedId # f }
  /\ UNCHANGED <<feedConfig, feedTx>>
  /\ UNCHANGED <<lastUpdated, now, nextId, locksAvailable, gate, pubDateOf, cycles>>
  /\ UNCHANGED <<workerVars, schedVars>>

NextDelete ==
  \/ NextGate
  \/ \E f \in FeedIds : DeleteFeed(f)

SpecDelete == Init /\ [][NextDelete]_vars

\* C35: the feedId of every stored item is the id of a stored feed, also when a feed is
\* deleted while an update cycle of it is in flight or is started afterwards.
C35_ItemsBelongToStoredFeeds ==
  \A item \in feedItems : item.feedId \in storedFeeds

(***************************************************************************)
(* Properties of the records of 'feedSources' (continued).                 *)
(***************************************************************************)
\* C36: a write of lastUpdated by an update cycle of either actor never stores a time
\* earlier than the one stored just before it.
C36_LastUpdatedNeverDecreases ==
  [][(StampPut \/ \E f \in FeedIds : UpdateFeedTimestamp(f)) =>
       \A f \in FeedIds : lastUpdated'[f] >= lastUpdated[f]]_vars

(***************************************************************************)
(* Properties of RSSWorker.updateSingleFeed: the attempts of one update.    *)
(***************************************************************************)
\* C37: one UPDATE_FEED command makes at most 4 fetches, one per attempt; a fetch starts
\* only at the command or when the timer of a retry fires, that is after the attempt
\* before it has failed, and never after the update has completed.
C37_AttemptsSequential ==
  /\ [](\A c \in CmdCalls :
          /\ calls[c].fetches <= 4
          /\ calls[c].fetches = calls[c].retryCount + 1)
  /\ [][\A c \in CallIds :
          calls'[c].fetches # calls[c].fetches =>
            /\ calls'[c].fetches = calls[c].fetches + 1
            /\ calls'[c].pc = "fetching"
            /\ calls[c].pc \in {"idle", "backoff"}
            /\ calls[c].pc = "backoff" => calls[c].scheduled = calls[c].fetches
            /\ calls[c].completes = 0]_vars

\* an update has completed at its fourth attempt
C37_Witness ==
  \E c \in CmdCalls :
    /\ calls[c].pc = "complete"
    /\ calls[c].fetches = 4
    /\ calls[c].scheduled = 3

(***************************************************************************)
(* Part XI: the page-owned path on its own, without the Web Locks API       *)
(* (SpecPage): WorkerManager.saveFeedItems runs unguarded.                  *)
(***************************************************************************)
NextPage ==
  \/ \E c \in Cycles, f \in FeedIds, content \in Contents : StartCycle(c, "page", f, content)
  \/ \E c \in Cycles : Request(c)
  \/ \E c \in Cycles : Read(c)
  \/ \E c \in Cycles, o \in TxOutcomes : PageWrite(c, o)
  \/ \E c \in Cycles : Stamp(c)
  \/ Tick

\* 'locks' in navigator is false
InitPage == Init /\ ~locksAvailable

SpecPage == InitPage /\ [][NextPage]_vars

\* C38: without the gate, the cycles of the page-owned path never leave two records
\* with the same feedId and guid, however their reads and writes interleave: every
\* record is stored under the key feedId-guid and a second write replaces the first.
C38_PageUpsertOneRecordPerGuid ==
  /\ \A x \in feedItems :
       /\ x.id = ItemKey(x)
       /\ Cardinality(RecordsOf(x.feedId, x.guid)) = 1
  /\ \A f \in FeedIds : gate[f] = 0

\* two cycles of one feed have both written the item with guid a, at different times
C38_Witness ==
  \E c, d \in Cycles :
    /\ c # d
    /\ cycles[c].feedId = cycles[d].feedId
    /\ cycles[c].pc = "done" /\ cycles[d].pc \in {"stamp", "done"}
    /\ \E i \in DOMAIN cycles[c].newItems : cycles[c].newItems[i].guid = "a"
    /\ \E i \in DOMAIN cycles[d].newItems : cycles[d].newItems[i].guid = "a"
    /\ \E x \in feedItems : x.guid = "a" /\ x.createdAt = 2

(***************************************************************************)
(* Properties of the service worker's scheduler (continued).               *)
(***************************************************************************)
\* C39: when refreshFeedSchedules has run, a feed that was inactive when the refresh
\* read the store has no timeout of a first update pending and no recurring timer
\* live in the service worker: nothing set before the refresh can start its update.
C39_RefreshStopsInactiveFeeds ==
  [][SWRefresh =>
       \A f \in SchedFeeds :
         ~isActive[f] =>
           /\ sw'.pending[f] = 0
           /\ \A t \in sw'.timers : t.feedId # f]_vars

====
